---- MODULE Spec2Model ----
(***************************************************************************)
(* Model of src/app.py, the income-distribution explorer: the percentile   *)
(* group catalog, the percentile parser, the dataframe filter, the summary *)
(* aggregation, the affordability lookup and the interaction cycle of      *)
(* main().                                                                 *)
(*                                                                         *)
(* Representation choices                                                  *)
(*  - A Python str that the code takes apart (a percentile label) is a     *)
(*    sequence of one-character strings, so strip/split/float act on it.   *)
(*  - A Python float that comes from a decimal literal or from float() of  *)
(*    a decimal string is the exact decimal, held as an integer count of   *)
(*    10^-FracDigits units.  Distinct decimals of at most eight            *)
(*    significant digits are distinct doubles in the same order, so        *)
(*    ==, < and <= agree with the code on every value used here.           *)
(*  - A Python int is unbounded; amounts that pass 2^31 are held as two    *)
(*    limbs <<hi, lo>> standing for hi * Base + lo with 0 <= lo < Base.    *)
(*  - The affordability labels end in an emoji in the source; the model    *)
(*    keeps their ASCII text, which is already pairwise distinct.  The     *)
(*    first label is an emoji only and is written "skull".                 *)
(***************************************************************************)
EXTENDS Integers, Sequences, FiniteSets, TLC

VARIABLES
    pc,               \* position of the running script in main()
    df,               \* the country's observations (load_country_data)
    variable,         \* st.selectbox "Select a variable"
    year,             \* st.selectbox "Select a year"
    group_name,       \* st.selectbox "Select a group"
    filtered_df,      \* main's local filtered_df
    provider,         \* what the exchange-rate API does on this cycle
    conversion_rate,  \* main's local conversion_rate
    summary_df,       \* main's local summary_df
    shown,            \* what the page shows, in order (st.error, st.write, ...)
    calls,            \* the helper calls of this cycle, in order
    exc,              \* the exception that ended this cycle, or "none"
    call,             \* a direct call of one function: its name and arguments
    ret               \* the results of the direct calls made so far

vars == <<pc, df, variable, year, group_name, filtered_df, provider,
          conversion_rate, summary_df, shown, calls, exc, call, ret>>

mainVars == <<pc, df, variable, year, group_name, filtered_df, provider,
              conversion_rate, summary_df, shown, calls, exc>>

----------------------------------------------------------------------------
(* Bounds of the model                                                     *)

\* digits kept after the decimal point of a float
FracDigits == 3
\* rows of a dataset handed to filter_data
MaxRows == 3
\* exchange rates 1..MaxRate
MaxRate == 3

----------------------------------------------------------------------------
(* Numbers                                                                 *)

Base == 10 ^ 5

Big(hi, lo) == <<hi, lo>>

ToBig(n) == <<n \div Base, n % Base>>

BigLess(a, b) == a[1] < b[1] \/ (a[1] = b[1] /\ a[2] < b[2])

BigLeq(a, b) == a = b \/ BigLess(a, b)

RECURSIVE Pow10(_)
Pow10(k) == IF k = 0 THEN 1 ELSE 10 * Pow10(k - 1)

\* one unit of a float: 1.0
One == Pow10(FracDigits)

\* the decimal literal m * 10^-e
Dec(m, e) == m * Pow10(FracDigits - e)

----------------------------------------------------------------------------
(* get_afford: the affordability lookup                                    *)

\* case n if n <= 0
afford_sentinel == "skull"

\* case n if n < bound: return label, in source order
afford_cases ==
    <<
       <<Big(0, 100), "nice dinner for two">>,
       <<Big(0, 200), "pair of Nike shoes">>,
       <<Big(0, 300), "weekend hotel stay">>,
       <<Big(0, 500), "budget smartphone">>,
       <<Big(0, 750), "round-trip domestic flight">>,
       <<Big(0, 1000), "month's rent in a small town">>,
       <<Big(0, 2000), "gaming console">>,
       <<Big(0, 3000), "high-end laptop">>,
       <<Big(0, 5000), "used motorcycle">>,
       <<Big(0, 7500), "home theater system">>,
       <<Big(0, 10000), "semester at community college">>,
       <<Big(0, 25000), "decent used car">>,
       <<Big(0, 35000), "new economy car">>,
       <<Big(0, 50000), "wedding celebration">>,
       <<Big(0, 75000), "year at private university">>,
       <<Big(1, 0), "Tesla Model 3">>,
       <<Big(1, 50000), "mobile home">>,
       <<Big(2, 50000), "small apartment in suburbs">>,
       <<Big(3, 50000), "condo in a major city">>,
       <<Big(5, 0), "nice house in most cities">>,
       <<Big(7, 50000), "beach house">>,
       <<Big(15, 0), "luxury yacht">>,
       <<Big(20, 0), "Bugatti supercar">>,
       <<Big(30, 0), "penthouse apartment">>,
       <<Big(50, 0), "private jet share">>,
       <<Big(75, 0), "small vineyard">>,
       <<Big(100, 0), "mansion in Beverly Hills">>,
       <<Big(200, 0), "private jet">>,
       <<Big(300, 0), "luxury hotel">>,
       <<Big(500, 0), "private island">>,
       <<Big(750, 0), "minor league sports team">>,
       <<Big(1000, 0), "professional sports team">>,
       <<Big(2000, 0), "skyscraper">>,
       <<Big(3000, 0), "cruise ship">>,
       <<Big(5000, 0), "space tourism ticket">>,
       <<Big(7500, 0), "major hospital">>,
       <<Big(10000, 0), "satellite constellation">>,
       <<Big(50000, 0), "nuclear power plant">>,
       <<Big(100000, 0), "An aircraft carrier">>
    >>

\* case _
afford_default == "small country's GDP"

RECURSIVE afford_match_le(_, _)
afford_match_le(n, i) ==
    IF i > Len(afford_cases) THEN afford_default
    ELSE IF BigLeq(n, afford_cases[i][1]) THEN afford_cases[i][2]
    ELSE afford_match_le(n, i + 1)

\* the bug "n <= bound" in place of "n < bound"
get_afford_le(income_usd) ==
    IF BigLeq(income_usd, Big(0, 0)) THEN afford_sentinel
    ELSE afford_match_le(income_usd, 1)

\* the cases after the first, tried in order from case i
RECURSIVE afford_match(_, _)
afford_match(n, i) ==
    IF i > Len(afford_cases) THEN afford_default
    ELSE IF BigLess(n, afford_cases[i][1]) THEN afford_cases[i][2]
    ELSE afford_match(n, i + 1)

get_afford(income_usd) ==
    IF BigLeq(income_usd, Big(0, 0)) THEN afford_sentinel
    ELSE afford_match(income_usd, 1)

----------------------------------------------------------------------------
(* Strings                                                                 *)

DigitChars == <<"0", "1", "2", "3", "4", "5", "6", "7", "8", "9">>

\* "{}".format(n) for an int n >= 0
RECURSIVE Str(_)
Str(n) == IF n < 10 THEN <<DigitChars[n + 1]>>
          ELSE Str(n \div 10) \o <<DigitChars[(n % 10) + 1]>>

\* "p{}p{}".format(a, b)
Format(a, b) == <<"p">> \o Str(a) \o <<"p">> \o Str(b)

\* range(n), as the sequence 0, 1, ..., n - 1
range(n) == [k \in 1..n |-> k - 1]

\* x in list
InList(x, list) == \E k \in DOMAIN list : list[k] = x

----------------------------------------------------------------------------
(* get_income_groups: the percentile group catalog                         *)

key_named ==
        <<
           <<"p", "0", "p", "1", "0", "0">>,
           <<"p", "0", "p", "5", "0">>,
           <<"p", "5", "0", "p", "9", "0">>,
           <<"p", "9", "0", "p", "9", "9">>,
           <<"p", "9", "9", "p", "1", "0", "0">>,
           <<"p", "9", "9", ".", "9", "9", "p", "1", "0", "0">>
        >>

Decile(i) == Format(i * 10, (i + 1) * 10)

Percentile(i) == Format(i, i + 1)

tenths_of_top_1 ==
        <<
           <<"p", "9", "9", "p", "9", "9", ".", "1">>,
           <<"p", "9", "9", ".", "1", "p", "9", "9", ".", "2">>,
           <<"p", "9", "9", ".", "2", "p", "9", "9", ".", "3">>,
           <<"p", "9", "9", ".", "3", "p", "9", "9", ".", "4">>,
           <<"p", "9", "9", ".", "4", "p", "9", "9", ".", "5">>,
           <<"p", "9", "9", ".", "5", "p", "9", "9", ".", "6">>,
           <<"p", "9", "9", ".", "6", "p", "9", "9", ".", "7">>,
           <<"p", "9", "9", ".", "7", "p", "9", "9", ".", "8">>,
           <<"p", "9", "9", ".", "8", "p", "9", "9", ".", "9">>
        >>

hundredths_of_top_01 ==
        <<
           <<"p", "9", "9", ".", "9", "p", "9", "9", ".", "9", "1">>,
           <<"p", "9", "9", ".", "9", "1", "p", "9", "9", ".", "9", "2">>,
           <<"p", "9", "9", ".", "9", "2", "p", "9", "9", ".", "9", "3">>,
           <<"p", "9", "9", ".", "9", "3", "p", "9", "9", ".", "9", "4">>,
           <<"p", "9", "9", ".", "9", "4", "p", "9", "9", ".", "9", "5">>,
           <<"p", "9", "9", ".", "9", "5", "p", "9", "9", ".", "9", "6">>,
           <<"p", "9", "9", ".", "9", "6", "p", "9", "9", ".", "9", "7">>,
           <<"p", "9", "9", ".", "9", "7", "p", "9", "9", ".", "9", "8">>,
           <<"p", "9", "9", ".", "9", "8", "p", "9", "9", ".", "9", "9">>
        >>

thousandths_of_top_001 ==
        <<
           <<"p", "9", "9", ".", "9", "9", "p", "9", "9", ".", "9", "9", "1">>,
           <<"p", "9", "9", ".", "9", "9", "1", "p", "9", "9", ".", "9", "9", "2">>,
           <<"p", "9", "9", ".", "9", "9", "2", "p", "9", "9", ".", "9", "9", "3">>,
           <<"p", "9", "9", ".", "9", "9", "3", "p", "9", "9", ".", "9", "9", "4">>,
           <<"p", "9", "9", ".", "9", "9", "4", "p", "9", "9", ".", "9", "9", "5">>,
           <<"p", "9", "9", ".", "9", "9", "5", "p", "9", "9", ".", "9", "9", "6">>,
           <<"p", "9", "9", ".", "9", "9", "6", "p", "9", "9", ".", "9", "9", "7">>,
           <<"p", "9", "9", ".", "9", "9", "7", "p", "9", "9", ".", "9", "9", "8">>,
           <<"p", "9", "9", ".", "9", "9", "8", "p", "9", "9", ".", "9", "9", "9">>
        >>

TopBand(i) == Format(i, 100)

\* the bug range(100) in place of range(99), which adds p99p100
detailed_p_groups_range100 ==
    [k \in DOMAIN range(100) |-> Percentile(range(100)[k])]
        \o tenths_of_top_1
        \o hundredths_of_top_01
        \o thousandths_of_top_001
        \o << <<"p", "9", "9", ".", "9", "9", "9", "p", "1", "0", "0">> >>

key_groups == key_named \o [k \in DOMAIN range(10) |-> Decile(range(10)[k])]

detailed_p_groups ==
    [k \in DOMAIN range(99) |-> Percentile(range(99)[k])]
        \o tenths_of_top_1
        \o hundredths_of_top_01
        \o thousandths_of_top_001
        \o << <<"p", "9", "9", ".", "9", "9", "9", "p", "1", "0", "0">> >>

detailed_top_groups == [k \in DOMAIN range(100) |-> TopBand(range(100)[k])]

\* the keys of the dict, in insertion order
group_keys == <<"key_groups", "detailed_p_groups", "detailed_top_groups">>

get_income_groups ==
    [key_groups |-> key_groups,
     detailed_p_groups |-> detailed_p_groups,
     detailed_top_groups |-> detailed_top_groups]

----------------------------------------------------------------------------
(* parse_percentile                                                        *)

\* x.lstrip("p")
RECURSIVE LStrip(_)
LStrip(s) == IF s # <<>> /\ Head(s) = "p" THEN LStrip(Tail(s)) ELSE s

\* x.rstrip("p")
RECURSIVE RStrip(_)
RStrip(s) == IF s # <<>> /\ s[Len(s)] = "p"
             THEN RStrip(SubSeq(s, 1, Len(s) - 1)) ELSE s

\* x.strip("p"): every leading and every trailing "p" goes
Strip(s) == RStrip(LStrip(s))

\* x.split("p"): the parts between the separators, empty parts kept
RECURSIVE SplitFrom(_, _)
SplitFrom(s, part) ==
    IF s = <<>> THEN <<part>>
    ELSE IF Head(s) = "p" THEN <<part>> \o SplitFrom(Tail(s), <<>>)
    ELSE SplitFrom(Tail(s), Append(part, Head(s)))

Split(s) == SplitFrom(s, <<>>)

IsDigit(c) == InList(c, DigitChars)

DigitValue(c) == (CHOOSE k \in DOMAIN DigitChars : DigitChars[k] = c) - 1

Count(s, c) == Cardinality({k \in DOMAIN s : s[k] = c})

\* the digits of s read as a decimal integer; 0 for no digits
RECURSIVE DigitsValue(_)
DigitsValue(s) ==
    IF s = <<>> THEN 0
    ELSE 10 * DigitsValue(SubSeq(s, 1, Len(s) - 1)) + DigitValue(s[Len(s)])

Unsigned(s) == IF s # <<>> /\ Head(s) \in {"-", "+"} THEN Tail(s) ELSE s

\* the strings float() accepts among those over digits, ".", "-", "+" and
\* letters: an optional sign, digits with at most one ".", at least one digit
IsFloatString(s) ==
    LET u == Unsigned(s)
    IN  /\ \A k \in DOMAIN u : IsDigit(u[k]) \/ u[k] = "."
        /\ Count(u, ".") <= 1
        /\ \E k \in DOMAIN u : IsDigit(u[k])

\* float(s) for a string float() accepts, of at most FracDigits decimals
FloatValue(s) ==
    LET u    == Unsigned(s)
        dot  == IF Count(u, ".") = 0 THEN Len(u) + 1
                ELSE CHOOSE k \in DOMAIN u : u[k] = "."
        int  == SubSeq(u, 1, dot - 1)
        frac == SubSeq(u, dot + 1, Len(u))
        kept == SubSeq(frac, 1, IF Len(frac) < FracDigits THEN Len(frac) ELSE FracDigits)
        mag  == DigitsValue(int) * One + DigitsValue(kept) * Pow10(FracDigits - Len(kept))
    IN  IF s # <<>> /\ Head(s) = "-" THEN 0 - mag ELSE mag

\* tuple(map(float, parts)): the first part float() rejects raises ValueError
FloatTuple(parts) ==
    IF \A k \in DOMAIN parts : IsFloatString(parts[k])
    THEN [exc |-> "none", val |-> [k \in DOMAIN parts |-> FloatValue(parts[k])]]
    ELSE [exc |-> "ValueError", val |-> <<>>]

\* the bug of returning the parts in reverse order
parse_percentile_reversed(x) ==
    LET r == FloatTuple(Split(Strip(x)))
    IN  [exc |-> r.exc, val |-> [k \in DOMAIN r.val |-> r.val[Len(r.val) + 1 - k]]]

parse_percentile(x) == FloatTuple(Split(Strip(x)))

----------------------------------------------------------------------------
(* filter_data                                                             *)

\* df[mask]: the rows a boolean mask keeps, in the order of df (the rows
\* lo..hi of it, split in halves)
RECURSIVE RowsIn(_, _, _, _)
RowsIn(frame, mask, lo, hi) ==
    IF lo > hi THEN <<>>
    ELSE IF lo = hi THEN (IF mask[lo] THEN <<frame[lo]>> ELSE <<>>)
    ELSE RowsIn(frame, mask, lo, (lo + hi) \div 2)
             \o RowsIn(frame, mask, (lo + hi) \div 2 + 1, hi)

Rows(frame, mask) == RowsIn(frame, mask, 1, Len(frame))

\* the bug of leaving out the year mask
filter_data_no_year(frame, v, y, g) ==
    LET groups == get_income_groups
        HasVariable(row) == row.variable = v
        InGroup(row) == InList(row.percentile, groups[g])
        df1 == Rows(frame, [k \in DOMAIN frame |-> HasVariable(frame[k])])
    IN  Rows(df1, [k \in DOMAIN df1 |-> InGroup(df1[k])])

filter_data(frame, v, y, g) ==
    LET groups == get_income_groups
        HasVariable(row) == row.variable = v
        HasYear(row) == row.year = y
        InGroup(row) == InList(row.percentile, groups[g])
        df1 == Rows(frame, [k \in DOMAIN frame |-> HasVariable(frame[k])])
        df2 == Rows(df1, [k \in DOMAIN df1 |-> HasYear(df1[k])])
    IN  Rows(df2, [k \in DOMAIN df2 |-> InGroup(df2[k])])

----------------------------------------------------------------------------
(* prepare_summary_data                                                    *)

\* (cutoff, label) pairs, in source order
percentile_cutoffs ==
    << <<Dec(1, 0), "Bottom 1%">>,
       <<Dec(5, 0), "Bottom 5%">>,
       <<Dec(10, 0), "Bottom 10%">>,
       <<Dec(50, 0), "Middle 50%">>,
       <<Dec(90, 0), "Top 10%">>,
       <<Dec(95, 0), "Top 5%">>,
       <<Dec(99, 0), "Top 1%">>,
       <<Dec(999, 1), "Top 0.1%">>,
       <<Dec(9999, 2), "Top 0.01%">>,
       <<Dec(99999, 3), "Top 0.001%">> >>

\* int(x) for a float x: truncation toward zero
IntOf(x) == IF x >= 0 THEN x \div One ELSE 0 - ((0 - x) \div One)

\* the bug of rounding halves up, where Python rounds them to the even side
round_half_up(num, den) ==
    LET q == num \div den
        r == num % den
    IN  IF 2 * r >= den THEN q + 1 ELSE q

\* round(num / den) for den > 0: to the nearest integer, a half to the
\* even neighbour
round(num, den) ==
    LET q == num \div den
        r == num % den
    IN  IF 2 * r < den THEN q
        ELSE IF 2 * r > den THEN q + 1
        ELSE IF q % 2 = 0 THEN q ELSE q + 1

\* df[df["percentile"] == cutoff]
Matching(frame, cutoff) ==
    LET IsCutoff(row) == row.percentile = cutoff
    IN  Rows(frame, [k \in DOMAIN frame |-> IsCutoff(frame[k])])

\* one pass of the loop body for percentile_cutoffs[i]
SummaryRecord(frame, conversion_rate_, i) ==
    LET value == IntOf(Matching(frame, percentile_cutoffs[i][1])[1].value)
        value_usd == round(value * One, conversion_rate_)
    IN  [percentile |-> percentile_cutoffs[i][2],
         value_usd |-> value_usd,
         afford |-> get_afford(ToBig(value_usd))]

\* the bug of skipping a cutoff that has no row
RECURSIVE summary_loop_skip(_, _, _, _)
summary_loop_skip(frame, conversion_rate_, i, records) ==
    IF i > Len(percentile_cutoffs) THEN [exc |-> "none", records |-> records]
    ELSE IF Matching(frame, percentile_cutoffs[i][1]) = <<>>
    THEN summary_loop_skip(frame, conversion_rate_, i + 1, records)
    ELSE summary_loop_skip(frame, conversion_rate_, i + 1,
                           Append(records, SummaryRecord(frame, conversion_rate_, i)))

prepare_summary_data_skip(frame, conversion_rate_) ==
    summary_loop_skip(frame, conversion_rate_, 1, <<>>)

\* the loop from cutoff i on: .values[0] of an empty selection raises
\* IndexError, and the records built so far are lost with the frame
RECURSIVE summary_loop(_, _, _, _)
summary_loop(frame, conversion_rate_, i, records) ==
    IF i > Len(percentile_cutoffs) THEN [exc |-> "none", records |-> records]
    ELSE IF Matching(frame, percentile_cutoffs[i][1]) = <<>>
    THEN [exc |-> "IndexError", records |-> <<>>]
    ELSE summary_loop(frame, conversion_rate_, i + 1,
                      Append(records, SummaryRecord(frame, conversion_rate_, i)))

\* the currency strings (fmt_usd, fmt_local) are left out of the records
prepare_summary_data(frame, conversion_rate_) ==
    summary_loop(frame, conversion_rate_, 1, <<>>)

----------------------------------------------------------------------------
(* main: one run of the script per interaction                             *)

\* st.error("No data available")
NoDataMessage == [kind |-> "error", text |-> "No data available"]

Show(kind, text) == [kind |-> kind, text |-> text]

\* filtered_df["percentile"].apply(parse_percentile): the first label that
\* fails to parse raises out of apply
ParsedColumn(frame) ==
    IF \E k \in DOMAIN frame : parse_percentile(frame[k].percentile).exc # "none"
    THEN [exc |-> "ValueError", rows |-> <<>>]
    ELSE [exc |-> "none",
          rows |-> [k \in DOMAIN frame |->
                       [percentile |-> parse_percentile(frame[k].percentile).val,
                        value |-> frame[k].value]]]

\* filtered_df["percentile"].apply(lambda x: x[0])
LowerColumn(frame) ==
    [k \in DOMAIN frame |-> [percentile |-> frame[k].percentile[1],
                             value |-> frame[k].value]]

\* sort_values(by="percentile"): ascending.  pandas leaves the order of rows
\* of equal key to the sort kind; the model keeps their input order.  Row k
\* goes to the place given by the rows that sort before it.
SortByPercentile(frame) ==
    LET n == Len(frame)
        place == [k \in 1..n |->
                     Cardinality({j \in 1..n :
                         \/ frame[j].percentile < frame[k].percentile
                         \/ frame[j].percentile = frame[k].percentile /\ j <= k})]
    IN  [r \in 1..n |-> frame[CHOOSE k \in 1..n : place[k] = r]]

\* filtered_df[filtered_df["percentile"].between(start, end)]
Between(frame, start, end) ==
    LET Inside(row) == start <= row.percentile /\ row.percentile <= end
    IN  Rows(frame, [k \in DOMAIN frame |-> Inside(frame[k])])

\* filtered_df = filter_data(df, variable, year, group_name)
Filter ==
    /\ pc = "filter"
    /\ filtered_df' = filter_data(df, variable, year, group_name)
    /\ calls' = Append(calls, "filter_data")
    /\ pc' = "check"
    /\ UNCHANGED <<df, variable, year, group_name, provider, conversion_rate,
                   summary_df, shown, exc, call, ret>>

\* the bug of leaving out st.stop(): the script goes on after the message
NoDataNoStop ==
    /\ pc = "check"
    /\ Len(filtered_df) = 0
    /\ shown' = Append(shown, NoDataMessage)
    /\ pc' = "rate"
    /\ UNCHANGED <<df, variable, year, group_name, filtered_df, provider,
                   conversion_rate, summary_df, calls, exc, call, ret>>

\* if not len(filtered_df): st.error(...); st.stop()
NoData ==
    /\ pc = "check"
    /\ Len(filtered_df) = 0
    /\ shown' = Append(shown, NoDataMessage)
    /\ pc' = "stopped"
    /\ UNCHANGED <<df, variable, year, group_name, filtered_df, provider,
                   conversion_rate, summary_df, calls, exc, call, ret>>

\* lines 75-85: parse the labels, show the table, keep the lower bounds,
\* sort by them
Process ==
    /\ pc = "check"
    /\ Len(filtered_df) # 0
    /\ calls' = Append(calls, "parse_percentile")
    /\ LET parsed == ParsedColumn(filtered_df)
       IN  IF parsed.exc # "none"
           THEN /\ exc' = parsed.exc
                /\ pc' = "raised"
                /\ UNCHANGED <<filtered_df, shown>>
           ELSE /\ filtered_df' = SortByPercentile(LowerColumn(parsed.rows))
                /\ shown' = Append(shown, Show("dataframe", "filtered_df"))
                /\ pc' = "rate"
                /\ UNCHANGED exc
    /\ UNCHANGED <<df, variable, year, group_name, provider, conversion_rate,
                   summary_df, call, ret>>

\* get_currency_conversion_rate: the request, the JSON body and the
\* ["rates"][currency] lookup each raise when they fail; nothing catches it
get_currency_conversion_rate(api) ==
    IF api.status = "ok" THEN [exc |-> "none", rate |-> api.rate]
    ELSE [exc |-> api.status, rate |-> 0]

\* conversion_rate = get_currency_conversion_rate(currency); st.write(...)
FetchRate ==
    /\ pc = "rate"
    /\ calls' = Append(calls, "get_currency_conversion_rate")
    /\ LET r == get_currency_conversion_rate(provider)
       IN  IF r.exc # "none"
           THEN /\ exc' = r.exc
                /\ pc' = "raised"
                /\ UNCHANGED <<conversion_rate, shown>>
           ELSE /\ conversion_rate' = r.rate
                /\ shown' = Append(shown, Show("write", "1 USD = conversion_rate currency"))
                /\ pc' = "summary"
                /\ UNCHANGED exc
    /\ UNCHANGED <<df, variable, year, group_name, filtered_df, provider,
                   summary_df, call, ret>>

\* summary_df = prepare_summary_data(filtered_df, ..., conversion_rate)
Summarise ==
    /\ pc = "summary"
    /\ calls' = Append(calls, "prepare_summary_data")
    /\ LET r == prepare_summary_data(filtered_df, conversion_rate)
       IN  IF r.exc # "none"
           THEN /\ exc' = r.exc
                /\ pc' = "raised"
                /\ UNCHANGED summary_df
           ELSE /\ summary_df' = r.records
                /\ pc' = "display"
                /\ UNCHANGED exc
    /\ UNCHANGED <<df, variable, year, group_name, filtered_df, provider,
                   conversion_rate, shown, call, ret>>

\* st.dataframe(summary_df); st.plotly_chart(create_summary_plot(...))
DisplaySummary ==
    /\ pc = "display"
    /\ calls' = Append(calls, "create_summary_plot")
    /\ shown' = shown \o <<Show("dataframe", "summary_df"), Show("chart", "summary")>>
    /\ pc' = "detail"
    /\ UNCHANGED <<df, variable, year, group_name, filtered_df, provider,
                   conversion_rate, summary_df, exc, call, ret>>

\* the two st.number_input values the user may leave or change
DetailRanges == {<<Dec(0, 0), Dec(100, 0)>>, <<Dec(50, 0), Dec(99, 0)>>}

\* the range inputs, the y-axis choice and the detailed chart
Detail ==
    /\ pc = "detail"
    /\ \E bounds \in DetailRanges, yaxis_type \in {"linear", "log"} :
          /\ filtered_df' = Between(filtered_df, bounds[1], bounds[2])
          /\ shown' = Append(shown, Show("chart", yaxis_type))
    /\ calls' = Append(calls, "create_detailed_plot")
    /\ pc' = "done"
    /\ UNCHANGED <<df, variable, year, group_name, provider, conversion_rate,
                   summary_df, exc, call, ret>>

----------------------------------------------------------------------------
(* The data and the selections a cycle starts from                         *)

Variables == {"aptincj992", "ahwealj992"}

Years == {2021, 2022}

\* a value for each band: 100 per percentile of its lower bound, plus a half
ValueOf(label) == parse_percentile(label).val[1] * 100 + One \div 2

Observations(labels, v, y) ==
    [k \in DOMAIN labels |->
        [variable |-> v, year |-> y, percentile |-> labels[k], value |-> ValueOf(labels[k])]]

NotKey(labels) ==
    LET Fresh(label) == ~InList(label, key_groups)
    IN  Rows(labels, [k \in DOMAIN labels |-> Fresh(labels[k])])

\* every band of the catalog once for one variable and year, the key bands
\* for another year
FullData ==
    Observations(key_groups \o detailed_p_groups \o NotKey(detailed_top_groups),
                 "aptincj992", 2022)
        \o Observations(key_groups, "aptincj992", 2021)

\* the unit percentiles only: the bands above p98p99 are missing
CoarseData ==
    Observations([k \in DOMAIN range(99) |-> Percentile(range(99)[k])],
                 "aptincj992", 2022)

\* the key bands only
KeyData == Observations(key_groups, "ahwealj992", 2021)

Datasets == {FullData, CoarseData, KeyData}

Rates == {Dec(k, 0) : k \in 1..MaxRate}

Providers ==
    {[status |-> "ok", rate |-> r] : r \in Rates}
        \cup {[status |-> s, rate |-> 0] : s \in {"ConnectionError", "KeyError"}}

GroupNames == {group_keys[k] : k \in DOMAIN group_keys}

\* the script starts: data loaded, widgets read
Start(d, v, y, g, api) ==
    /\ pc = "filter"
    /\ df = d
    /\ variable = v
    /\ year = y
    /\ group_name = g
    /\ provider = api
    /\ filtered_df = <<>>
    /\ conversion_rate = 0
    /\ summary_df = <<>>
    /\ shown = <<>>
    /\ calls = <<>>
    /\ exc = "none"

\* a widget changes and the script runs again from the top
Rerun ==
    /\ pc \in {"stopped", "raised", "done"}
    /\ \E d \in Datasets, v \in Variables, y \in Years, g \in GroupNames, api \in Providers :
          /\ pc' = "filter"
          /\ df' = d
          /\ variable' = v
          /\ year' = y
          /\ group_name' = g
          /\ provider' = api
    /\ filtered_df' = <<>>
    /\ conversion_rate' = 0
    /\ summary_df' = <<>>
    /\ shown' = <<>>
    /\ calls' = <<>>
    /\ exc' = "none"
    /\ UNCHANGED <<call, ret>>

Init ==
    /\ \E d \in Datasets, v \in Variables, y \in Years, g \in GroupNames, api \in Providers :
          Start(d, v, y, g, api)
    /\ call = [fn |-> "main", args |-> <<>>]
    /\ ret = <<>>

Next ==
    \/ Filter
    \/ NoData
    \/ Process
    \/ FetchRate
    \/ Summarise
    \/ DisplaySummary
    \/ Detail
    \/ Rerun

Spec == Init /\ [][Next]_vars

----------------------------------------------------------------------------
(* Direct calls of the functions, outside a run of the script              *)

\* no script is running
Idle ==
    /\ pc = "idle"
    /\ df = <<>>
    /\ variable = "none"
    /\ year = 0
    /\ group_name = "none"
    /\ filtered_df = <<>>
    /\ provider = [status |-> "none", rate |-> 0]
    /\ conversion_rate = 0
    /\ summary_df = <<>>
    /\ shown = <<>>
    /\ calls = <<>>
    /\ exc = "none"

\* the table of the classifier as the specification lists it
SpecBounds ==
    << Big(0, 100), Big(0, 200), Big(0, 300), Big(0, 500), Big(0, 750),
       Big(0, 1000), Big(0, 2000), Big(0, 3000), Big(0, 5000), Big(0, 7500),
       Big(0, 10000), Big(0, 25000), Big(0, 35000), Big(0, 50000),
       Big(0, 75000), Big(1, 0), Big(1, 50000), Big(2, 50000), Big(3, 50000),
       Big(5, 0), Big(7, 50000), Big(15, 0), Big(20, 0), Big(30, 0),
       Big(50, 0), Big(75, 0), Big(100, 0), Big(200, 0), Big(300, 0),
       Big(500, 0), Big(750, 0), Big(1000, 0), Big(2000, 0), Big(3000, 0),
       Big(5000, 0), Big(7500, 0), Big(10000, 0), Big(50000, 0),
       Big(100000, 0) >>

BigPred(a) == IF a[2] = 0 THEN <<a[1] - 1, Base - 1>> ELSE <<a[1], a[2] - 1>>

BigSucc(a) == IF a[2] = Base - 1 THEN <<a[1] + 1, 0>> ELSE <<a[1], a[2] + 1>>

\* each listed bound with its two neighbours, and the amounts the examples name
Amounts ==
    UNION {{BigPred(SpecBounds[k]), SpecBounds[k], BigSucc(SpecBounds[k])} :
              k \in DOMAIN SpecBounds}
        \cup {ToBig(0 - 5), ToBig(0 - 1), ToBig(0), ToBig(1), Big(500000, 0)}

\* get_afford(args[1]), then get_afford(args[2])
CallGetAfford ==
    /\ call.fn = "get_afford"
    /\ Len(ret) < Len(call.args)
    /\ ret' = Append(ret, get_afford(call.args[Len(ret) + 1]))
    /\ UNCHANGED <<mainVars, call>>

InitAfford ==
    /\ Idle
    /\ \E a \in Amounts, b \in Amounts : call = [fn |-> "get_afford", args |-> <<a, b>>]
    /\ ret = <<>>

NextAfford == CallGetAfford

SpecAfford == InitAfford /\ [][NextAfford]_vars

\* the characters of the labels tried
LabelChars == {"p", "1", "5", ".", "x"}

\* the longest label tried
MaxLabelLen == 5

Labels == UNION {[1..n -> LabelChars] : n \in 0..MaxLabelLen}

\* parse_percentile(args[1])
CallParsePercentile ==
    /\ call.fn = "parse_percentile"
    /\ ret = <<>>
    /\ ret' = <<parse_percentile(call.args[1])>>
    /\ UNCHANGED <<mainVars, call>>

InitParse ==
    /\ Idle
    /\ \E x \in Labels : call = [fn |-> "parse_percentile", args |-> <<x>>]
    /\ ret = <<>>

NextParse == CallParsePercentile

SpecParse == InitParse /\ [][NextParse]_vars

\* groups = get_income_groups()
CallGetIncomeGroups ==
    /\ call.fn = "get_income_groups"
    /\ ret = <<>>
    /\ ret' = <<get_income_groups>>
    /\ UNCHANGED <<mainVars, call>>

\* parse_percentile(groups[g][i]) for the group g and the index i of the call
CallParseGroupLabel ==
    /\ call.fn = "get_income_groups"
    /\ Len(ret) = 1
    /\ call.args[2] \in DOMAIN ret[1][call.args[1]]
    /\ ret' = Append(ret, parse_percentile(ret[1][call.args[1]][call.args[2]]))
    /\ UNCHANGED <<mainVars, call>>

\* an index past the longest group
MaxIndex == 130

InitCatalog ==
    /\ Idle
    /\ \E g \in GroupNames, i \in 1..MaxIndex :
          call = [fn |-> "get_income_groups", args |-> <<g, i>>]
    /\ ret = <<>>

NextCatalog == CallGetIncomeGroups \/ CallParseGroupLabel

SpecCatalog == InitCatalog /\ [][NextCatalog]_vars

\* one band of the key groups only, one of the detailed groups only, one of
\* the top groups only, and one of no group
FilterLabels ==
    <<<<"p", "0", "p", "5", "0">>, <<"p", "0", "p", "1">>,
      <<"p", "5", "p", "1", "0", "0">>, <<"p", "9", "9", ".", "9", "p", "1", "0", "0">>>>

\* the four bands for one variable and year, and two of them for the other
\* variable and for the other year
FilterRows ==
    {[variable |-> "aptincj992", year |-> 2022, percentile |-> FilterLabels[k], value |-> One] :
        k \in 1..4}
      \cup {[variable |-> "ahwealj992", year |-> 2022, percentile |-> FilterLabels[k], value |-> One] :
               k \in 1..2}
      \cup {[variable |-> "aptincj992", year |-> 2021, percentile |-> FilterLabels[k], value |-> One] :
               k \in 1..2}

Frames == UNION {[1..n -> FilterRows] : n \in 0..MaxRows}

\* filter_data(obs, v, y, g) for each group g of the catalog in turn
CallFilterData ==
    /\ call.fn = "filter_data"
    /\ Len(ret) < Len(group_keys)
    /\ ret' = Append(ret, filter_data(call.args[1], call.args[2], call.args[3],
                                      group_keys[Len(ret) + 1]))
    /\ UNCHANGED <<mainVars, call>>

InitFilter ==
    /\ Idle
    /\ \E obs \in Frames, v \in Variables, y \in Years :
          call = [fn |-> "filter_data", args |-> <<obs, v, y>>]
    /\ ret = <<>>

NextFilter == CallFilterData

SpecFilter == InitFilter /\ [][NextFilter]_vars

\* native values of the ten cutoff rows, in cutoff order
CutoffValues == <<1, 5, 10, 50, 90, 95, 99, 999, 9999, 99999>>

\* the rows of the cutoffs in `present`, in cutoff order
CutoffFrame(present) ==
    LET all  == [k \in DOMAIN percentile_cutoffs |->
                    [percentile |-> percentile_cutoffs[k][1],
                     value |-> CutoffValues[k] * One]]
        mask == [k \in DOMAIN percentile_cutoffs |-> k \in present]
    IN  Rows(all, mask)

\* prepare_summary_data(frame, ..., conversion_rate)
CallPrepareSummaryData ==
    /\ call.fn = "prepare_summary_data"
    /\ ret = <<>>
    /\ ret' = <<prepare_summary_data(call.args[1], call.args[2])>>
    /\ UNCHANGED <<mainVars, call>>

InitSummary ==
    /\ Idle
    /\ \E present \in SUBSET (DOMAIN percentile_cutoffs), rate \in Rates :
          call = [fn |-> "prepare_summary_data",
                  args |-> <<CutoffFrame(present), rate>>,
                  present |-> present]
    /\ ret = <<>>

NextSummary == CallPrepareSummaryData

SpecSummary == InitSummary /\ [][NextSummary]_vars

----------------------------------------------------------------------------
(* Properties                                                              *)

\* the labels of get_afford in source order, sentinel first, catch-all last
AffordLabels ==
    <<afford_sentinel>> \o [k \in DOMAIN afford_cases |-> afford_cases[k][2]]
        \o <<afford_default>>

\* the bucket the specification's table gives an amount: 0 for the sentinel,
\* else 1 + the number of listed bounds the amount has reached
SpecBucket(a) ==
    IF BigLeq(a, Big(0, 0)) THEN 0
    ELSE 1 + Cardinality({k \in DOMAIN SpecBounds : BigLeq(SpecBounds[k], a)})

LabelIndex(label) == CHOOSE k \in DOMAIN AffordLabels : AffordLabels[k] = label

\* C1: get_afford returns the sentinel for amount <= 0, the catch-all for
\* amount >= 10000000000, and otherwise the label of the first listed bound
\* strictly above the amount; the bucket of the returned label does not
\* decrease as the amount grows, two amounts get the same label exactly when
\* they are in the same bucket, and every amount gets a label.
C1_Classify ==
    /\ \A i \in DOMAIN ret :
          LET a == call.args[i]
          IN  /\ \E k \in DOMAIN AffordLabels : AffordLabels[k] = ret[i]
              /\ BigLeq(a, Big(0, 0)) => ret[i] = afford_sentinel
              /\ BigLeq(SpecBounds[Len(SpecBounds)], a) => ret[i] = afford_default
              /\ (~BigLeq(a, Big(0, 0)) /\ BigLess(a, SpecBounds[Len(SpecBounds)])) =>
                    LET first == CHOOSE k \in DOMAIN SpecBounds :
                                    /\ BigLess(a, SpecBounds[k])
                                    /\ \A j \in 1..(k - 1) : ~BigLess(a, SpecBounds[j])
                    IN  ret[i] = afford_cases[first][2]
              /\ LabelIndex(ret[i]) = SpecBucket(a) + 1
    /\ Len(ret) = 2 =>
          /\ (SpecBucket(call.args[1]) = SpecBucket(call.args[2])) <=> (ret[1] = ret[2])
          /\ BigLeq(call.args[1], call.args[2]) => LabelIndex(ret[1]) <= LabelIndex(ret[2])

\* C1 witness: 99 and 100 have been classified and got different labels
C1_Witness ==
    /\ call.fn = "get_afford"
    /\ call.args = <<Big(0, 99), Big(0, 100)>>
    /\ Len(ret) = 2
    /\ ret[1] # ret[2]

\* the indices of the rows of obs with variable v, year y and a label of group g
Wanted(obs, v, y, g) ==
    {k \in DOMAIN obs :
        /\ obs[k].variable = v
        /\ obs[k].year = y
        /\ InList(obs[k].percentile, get_income_groups[g])}

SharedLabel(g1, g2) ==
    \E k \in DOMAIN get_income_groups[g1] : InList(get_income_groups[g1][k], get_income_groups[g2])

\* the pairs of catalog groups without a common label
DisjointGroups ==
    {pair \in (DOMAIN group_keys) \X (DOMAIN group_keys) :
        ~SharedLabel(group_keys[pair[1]], group_keys[pair[2]])}

CutoffAbsent(frame) ==
    \E k \in DOMAIN percentile_cutoffs :
        \A r \in DOMAIN frame : frame[r].percentile # percentile_cutoffs[k][1]

\* C3: when one of the ten cutoffs has no row in the input,
\* prepare_summary_data fails (Python's IndexError is the missing-cutoff
\* error) and returns no record.
C3_MissingCutoff ==
    (ret # <<>> /\ CutoffAbsent(call.args[1])) =>
        /\ ret[1].exc = "IndexError"
        /\ ret[1].records = <<>>

\* C3 witness: a frame of nine cutoffs was summarised and the call raised
C3_Witness ==
    /\ call.fn = "prepare_summary_data"
    /\ Len(call.args[1]) = 9
    /\ ret # <<>>
    /\ ret[1].exc = "IndexError"

\* the call of the round-trip example: all ten cutoffs, rate 2
RoundTrip ==
    /\ call.fn = "prepare_summary_data"
    /\ call.present = DOMAIN percentile_cutoffs
    /\ call.args[2] = Dec(2, 0)
    /\ ret # <<>>

ValuesUsd(records) == [k \in DOMAIN records |-> records[k].value_usd]

\* C4 as stated: for the ten cutoffs with values 1, 5, 10, 50, 90, 95, 99,
\* 999, 9999, 99999 and rate 2 the amounts are 0, 3, 5, 25, 45, 48, 50, 500,
\* 5000, 50000.
C4_Original ==
    RoundTrip =>
        /\ ret[1].exc = "none"
        /\ ValuesUsd(ret[1].records) = <<0, 3, 5, 25, 45, 48, 50, 500, 5000, 50000>>

\* C4 amended: the amounts are value / 2 rounded to the nearest integer with
\* a half going to the even neighbour, 0, 2, 5, 25, 45, 48, 50, 500, 5000,
\* 50000, in cutoff-table order, each with the label of its bucket.
C4_RoundHalfEven ==
    RoundTrip =>
        /\ ret[1].exc = "none"
        /\ ValuesUsd(ret[1].records) = <<0, 2, 5, 25, 45, 48, 50, 500, 5000, 50000>>
        /\ \A k \in DOMAIN ret[1].records :
              /\ ret[1].records[k].percentile = percentile_cutoffs[k][2]
              /\ ret[1].records[k].afford
                    = AffordLabels[SpecBucket(ToBig(ret[1].records[k].value_usd)) + 1]

\* C4 witness: the round-trip call has returned ten records
C4_Witness ==
    /\ RoundTrip
    /\ Len(ret[1].records) = 10

\* the "p" separators of a label after a leading "p" is taken off
InternalSeparators(x) ==
    Count(IF x # <<>> /\ Head(x) = "p" THEN Tail(x) ELSE x, "p")

\* C5 as stated: parse_percentile fails for a label with no or with more than
\* one internal "p" separator, and whatever it returns is a pair.
C5_Claim ==
    ret # <<>> =>
        /\ InternalSeparators(call.args[1]) # 1 => ret[1].exc # "none"
        /\ ret[1].exc = "none" => Len(ret[1].val) = 2

\* C6 as stated: no cycle of main ends by an unhandled exception, and every
\* cycle that hit an error has shown a message.
C6_Claim ==
    pc \in {"stopped", "raised", "done"} =>
        /\ exc = "none"
        /\ shown # <<>>

CountCalls(name) == Cardinality({k \in DOMAIN calls : calls[k] = name})

Position(name) == CHOOSE k \in DOMAIN calls : calls[k] = name

C7_State ==
    /\ pc = "stopped" =>
          /\ filtered_df = <<>>
          /\ calls = <<"filter_data">>
          /\ shown = <<NoDataMessage>>
    /\ CountCalls("get_currency_conversion_rate") <= 1
    /\ pc \in {"filter", "check", "rate", "stopped"} =>
          CountCalls("get_currency_conversion_rate") = 0
    /\ pc \in {"summary", "display", "detail", "done", "raised"} =>
          /\ CountCalls("get_currency_conversion_rate") = 1
          /\ Position("filter_data") < Position("get_currency_conversion_rate")
          /\ CountCalls("prepare_summary_data") > 0 =>
                Position("get_currency_conversion_rate") < Position("prepare_summary_data")

C7_Step ==
    /\ (pc = "check" /\ filtered_df = <<>>) =>
          /\ pc' = "stopped"
          /\ calls' = calls
          /\ shown' = Append(shown, NoDataMessage)
    /\ pc = "stopped" => (pc' = "filter" /\ calls' = <<>>)

\* C7: an empty filter result shows "No data available" and ends the cycle:
\* the only step after it starts a new cycle, so nothing is parsed, fetched,
\* summarised or plotted; a cycle with a non-empty result fetches the rate
\* exactly once, after filter_data and before prepare_summary_data.
C7_Halts == []C7_State /\ [][C7_Step]_vars

\* C7 witness: a cycle stopped on the message after filter_data alone
C7_Witness ==
    /\ pc = "stopped"
    /\ shown = <<NoDataMessage>>
    /\ calls = <<"filter_data">>

\* C8: every label of every catalog group parses to a pair (lower, upper)
\* with 0 <= lower < upper <= 100.
C8_GroupLabels ==
    /\ ret # <<>> =>
          \A g \in DOMAIN ret[1] : Len(ret[1][g]) <= MaxIndex
    /\ Len(ret) = 2 =>
          /\ ret[2].exc = "none"
          /\ Len(ret[2].val) = 2
          /\ 0 <= ret[2].val[1]
          /\ ret[2].val[1] < ret[2].val[2]
          /\ ret[2].val[2] <= Dec(100, 0)

\* C8 witness: p99.99p100 of the key groups was parsed to (99.99, 100)
C8_Witness ==
    /\ call.fn = "get_income_groups"
    /\ call.args = <<"key_groups", 6>>
    /\ Len(ret) = 2
    /\ ret[2].val = <<Dec(9999, 2), Dec(100, 0)>>

LowerBounds(labels) == [k \in DOMAIN labels |-> parse_percentile(labels[k]).val[1]]

====
